---- MODULE Spec2Model ----
(***************************************************************************)
(* EditorManager and Editor of src/features/editing/editorManager.ts as a  *)
(* state machine.  One action per host callback: the provider entry point, *)
(* the panel's view-state and dispose events, the file watcher's change    *)
(* and delete events, the settling of the constructor's stat probe and the *)
(* settling of the stat that a render of a git resource awaits.            *)
(***************************************************************************)
EXTENDS Integers, Sequences, FiniteSets, TLC

\* Bound on the Editors the host opens (calls of resolveCustomTextEditor).
MaxEditors == 2

\* Bound on the host callbacks delivered in one run.
MaxEvents == 5

\* Bounds of the render specification: the renders one Editor starts, the
\* readings of the millisecond clock, and the sizes stat reports.
MaxRenders == 2
MaxClock == 2
MaxSize == 1

EditorIds == 1..MaxEditors

\* `undefined` of `_activeEditor: Editor | undefined`.
None == 0

\* vscode.Uri values: the components that Uri.toString() prints.
FileA == [scheme |-> "file", path |-> "/a.bpmn", query |-> ""]
FileB == [scheme |-> "file", path |-> "/b.bpmn", query |-> ""]
GitARef == [scheme |-> "git", path |-> "/a.bpmn", query |-> "ref=HEAD"]
NoUri == [scheme |-> "", path |-> "", query |-> ""]

\* The documents the host opens an editor on.
Resources == {FileA, GitARef}

\* The uris a watcher event can carry.
EventUris == Resources \cup {FileB}

\* The documents of the render specification: with and without the git
\* scheme, with and without a query.
RenderResources ==
    [scheme : {"file", "git"}, path : {"/a.bpmn"}, query : {"", "ref=HEAD"}]

\* What the stat of a git resource reports: a size, or a rejection.
StatError == -1
Sizes == 0..MaxSize

VARIABLES
    created,         \* number of Editors constructed so far; ids are 1..created
    editors,         \* EditorManager._editors
    activeEditor,    \* EditorManager._activeEditor (None when undefined)
    contextFlag,     \* host value of the bpmnEditorFocus context key: <<>>
                     \* until the first setContext, then <<value>>
    assigned,        \* values the last handler assigned to _activeEditor
    broadcasts,      \* setContext values the last handler sent
    resource,        \* Editor.resource
    editorState,     \* Editor._editorState
    disposables,     \* what the Editor registered and has not released
    webviewActive,   \* webviewEditor.active of the Editor's panel
    panelDisposed,   \* the panel has fired onDidDispose
    html,            \* webviewEditor.webview.html: the render that wrote it
    rendersStarted,  \* renders of the Editor that passed the Disposed check
    pendingRenders,  \* renders suspended in getResourcePath's await of stat
    statPending,     \* the constructor's stat probe has not settled
    events,          \* number of host callbacks delivered so far
    stateBefore,     \* _editorState of the last handler's Editor when the
                     \* handler began ("None" for the call that constructs it)
    updated,         \* number of update() passes the last handler ran
    posted,          \* values of the setActive messages the last handler
                     \* posted to its webview
    lastOp,          \* the host callback that ran last: its kind, its
                     \* editor, its boolean argument (for a watcher event:
                     \* whether the handler's filter passed) and its uri
    \* One Editor's renders in full (the render specification).
    now,             \* Date.now(): the millisecond clock
    rResource,       \* Editor.resource (NoUri before construction)
    rDisposed,       \* Editor._editorState is Disposed
    rStarted,        \* renders that passed the Disposed check
    rPending,        \* renders suspended on stat: their id and version
    rDone,           \* renders that assigned webview.html: id, timestamp,
                     \* version, size read, nonce, resource url
    rHtml            \* webview.html: <<>> before the first assignment

mainVars == <<created, editors, activeEditor, contextFlag, assigned, broadcasts,
          resource, editorState, disposables, webviewActive, panelDisposed,
          html, rendersStarted, pendingRenders, statPending, events,
          stateBefore, updated, posted, lastOp>>

renderVars == <<now, rResource, rDisposed, rStarted, rPending, rDone, rHtml>>

vars == <<mainVars, renderVars>>

\* Every action is one delivered callback.
Deliver(op) ==
    /\ events < MaxEvents
    /\ events' = events + 1
    /\ stateBefore' = editorState[op.editor]
    /\ lastOp' = op
    /\ UNCHANGED renderVars

Op(kind, e, flag, uri) ==
    [kind |-> kind, editor |-> e, flag |-> flag, uri |-> uri]

----------------------------------------------------------------------------
\* Uri.toString(): scheme, path and, when present, the query.
UriToString(u) ==
    u.scheme \o ":" \o u.path \o (IF u.query = "" THEN "" ELSE "?" \o u.query)

\* Mutant of WatcherMatches: the filter compares the paths only.
WatcherMatchesPath(e, res) == e.path = res.path

\* The filter of both watcher callbacks: e.toString() === this.resource.toString().
WatcherMatches(e, res) == UriToString(e) = UriToString(res)

\* Mutant of update: the Disposed check is missing.
updateIgnoresDisposed(st, active) == IF active THEN "Active" ELSE "Visible"

\* Editor.update(): the state after the call, from the state before it and
\* webviewEditor.active.
update(st, active) ==
    IF st = "Disposed" THEN st
    ELSE IF active THEN "Active" ELSE "Visible"

\* Editor.render(): whether the call goes on to compute and assign the html.
render(st) == st # "Disposed"

\* getResourcePath: whether the computation awaits the host's stat reply
\* (every other await settles in the microtasks of the calling task).
AwaitsStat(res) == res.scheme = "git"

\* Editor.emptyPngDataUri.
emptyPngDataUri ==
    "data:image/png;base64,iVBORw0KGgoAAAANSUhEUgAAAAEAAAABCAYAAAAfFcSJAAAAEElEQVR42gEFAPr/AP///wAI/AL+Sr4t6gAAAABJRU5ErkJggg=="

\* Number.prototype.toString of Date.now(): the decimal digits.
Digit(d) ==
    CASE d = 0 -> "0" [] d = 1 -> "1" [] d = 2 -> "2" [] d = 3 -> "3"
      [] d = 4 -> "4" [] d = 5 -> "5" [] d = 6 -> "6" [] d = 7 -> "7"
      [] d = 8 -> "8" [] d = 9 -> "9"

NatToString[n \in Nat] ==
    IF n < 10 THEN Digit(n) ELSE NatToString[n \div 10] \o Digit(n % 10)

\* webview.asWebviewUri(resource): the host's webview-addressable uri; the
\* original scheme moves into the path and the query is kept.
AsWebviewUri(u) ==
    [scheme |-> "vscode-resource", path |-> "/" \o u.scheme \o u.path,
     query |-> u.query]

\* Uri.with({ query }).
WithQuery(u, q) == [u EXCEPT !.query = q]

\* Mutant of getResourcePath: the query test comes before the test of the
\* git scheme and the size.
getResourcePathQueryFirst(res, size, version) ==
    IF res.query # "" THEN UriToString(AsWebviewUri(res))
    ELSE IF res.scheme = "git" /\ size = 0 THEN emptyPngDataUri
    ELSE UriToString(WithQuery(AsWebviewUri(res), "version=" \o version))

\* Mutant of getResourcePath: the version is appended whatever the query.
getResourcePathAlwaysVersion(res, size, version) ==
    IF res.scheme = "git" /\ size = 0 THEN emptyPngDataUri
    ELSE UriToString(WithQuery(AsWebviewUri(res), "version=" \o version))

\* Editor.getResourcePath(webviewEditor, resource, version), with the size
\* its stat reported (read for a git resource only).
getResourcePath(res, size, version) ==
    IF res.scheme = "git" /\ size = 0 THEN emptyPngDataUri
    ELSE IF res.query # "" THEN UriToString(AsWebviewUri(res))
    ELSE UriToString(WithQuery(AsWebviewUri(res), "version=" \o version))

\* process.platform === 'darwin'.
isMac == FALSE

\* escapeAttribute(JSON.stringify(settings)): the settings object printed
\* as JSON with every double quote replaced by &quot;.
escapeAttribute(src) ==
    "{&quot;isMac&quot;:" \o (IF isMac THEN "true" ELSE "false")
        \o ",&quot;src&quot;:&quot;" \o src \o "&quot;}"

\* Editor.getWebiewContents(): the parts of the html template that vary,
\* the data-settings attribute and the nonce of the security policy.
getWebiewContents(src, nonce) ==
    [settings |-> escapeAttribute(src), nonce |-> nonce]

\* Disposable._register: the disposable joins the Editor's tracked set.
Register(tracked, d) == tracked \cup {d}

\* Mutant of setActiveEditor: clearing the reference sends no command.
setActiveEditorSilentClear(value) ==
    [active |-> value, context |-> IF value = None THEN <<>> ELSE <<TRUE>>]

\* EditorManager.setActiveEditor(value): the new reference and the
\* setContext commands it sends through setPreviewActiveContext.
setActiveEditor(value) == [active |-> value, context |-> <<value # None>>]

\* Mutant of ResolveActivates: only a focused panel's editor is activated.
ResolveActivatesIfFocused(e, active) == IF active THEN <<e>> ELSE <<>>

\* resolveCustomTextEditor: the arguments of the setActiveEditor calls it
\* makes for the new editor e, whose panel reports `active`.
ResolveActivates(e, active) == <<e>>

\* Mutant of ManagerOnDidChangeViewState: an inactive panel always clears.
ManagerOnDidChangeViewStateClears(cur, e, active) ==
    IF active THEN <<e>> ELSE <<None>>

\* Mutant of ManagerOnDidChangeViewState: an inactive panel clears whatever
\* reference is present.
ManagerOnDidChangeViewStateLate(cur, e, active) ==
    IF active THEN <<e>>
    ELSE IF cur # None THEN <<None>>
    ELSE <<>>

\* The manager's onDidChangeViewState listener: the arguments of the
\* setActiveEditor calls it makes, in order.
ManagerOnDidChangeViewState(cur, e, active) ==
    IF active THEN <<e>>
    ELSE IF cur = e /\ ~active THEN <<None>>
    ELSE <<>>

\* Mutant of ManagerOnDidDispose: the whole set is cleared.
ManagerOnDidDisposeClear(set, e) == {}

\* The manager's onDidDispose listener: this._editors.delete(editor).
ManagerOnDidDispose(set, e) == set \ {e}

\* Mutant of ViewStatePosts: a message is posted only on a state change.
ViewStatePostsOnChange(before, after, active) ==
    IF before # after THEN <<active>> ELSE <<>>

\* The Editor's onDidChangeViewState listener: the values of the setActive
\* messages it posts, given the editor state before and after its update()
\* and webviewEditor.active.
ViewStatePosts(before, after, active) == <<active>>

\* The Editor constructor: the values of the setActive messages it posts.
ConstructorPosts(active) == <<active>>

\* The then-handler of the constructor's stat probe: the update() passes
\* it runs when the probe settles.
StatThen(fulfilled) == IF fulfilled THEN 1 ELSE 0

\* Mutant of EditorOnDidDispose: the state is left as it was.
EditorOnDidDisposeKeeps(st) == st

\* The Editor's onDidDispose listener.
EditorOnDidDispose(st) == "Disposed"

----------------------------------------------------------------------------
\* The manager's part of a handler that calls setActiveEditor on each of
\* `calls` in order.
Sent[calls \in Seq(EditorIds \cup {None})] ==
    IF calls = <<>> THEN <<>>
    ELSE Sent[SubSeq(calls, 1, Len(calls) - 1)]
             \o setActiveEditor(calls[Len(calls)]).context

Assign(calls) ==
    /\ assigned' = calls
    /\ broadcasts' = Sent[calls]
    /\ activeEditor' = IF calls = <<>> THEN activeEditor
                       ELSE setActiveEditor(calls[Len(calls)]).active
    /\ contextFlag' = IF Sent[calls] = <<>> THEN contextFlag
                      ELSE <<Sent[calls][Len(Sent[calls])]>>

\* What the handler did besides its writes: its update() passes and the
\* messages it posted.
Ran(passes, messages) ==
    /\ updated' = passes
    /\ posted' = messages

\* A render started by editor e in state st: counted, then either suspended
\* on stat or, with nothing to wait for, written within the same task.
StartRender(e, res, st) ==
    LET id == rendersStarted[e] + 1 IN
    IF render(st)
    THEN /\ rendersStarted' = [rendersStarted EXCEPT ![e] = id]
         /\ IF AwaitsStat(res)
            THEN /\ pendingRenders' = [pendingRenders EXCEPT ![e] = @ \cup {id}]
                 /\ html' = html
            ELSE /\ html' = [html EXCEPT ![e] = id]
                 /\ pendingRenders' = pendingRenders
    ELSE UNCHANGED <<rendersStarted, pendingRenders, html>>

\* webviewEditor.dispose() / the host closing the panel: the panel fires
\* onDidDispose once, the Editor's listener first, then the manager's.
DisposePanel(e) ==
    /\ panelDisposed' = [panelDisposed EXCEPT ![e] = TRUE]
    /\ editorState' = [editorState EXCEPT ![e] = EditorOnDidDispose(@)]
    /\ editors' = ManagerOnDidDispose(editors, e)

Init ==
    /\ created = 0
    /\ editors = {}
    /\ activeEditor = None
    /\ contextFlag = <<>>
    /\ assigned = <<>>
    /\ broadcasts = <<>>
    /\ resource = [e \in EditorIds |-> NoUri]
    /\ editorState = [e \in EditorIds |-> "None"]
    /\ disposables = [e \in EditorIds |-> {}]
    /\ webviewActive = [e \in EditorIds |-> FALSE]
    /\ panelDisposed = [e \in EditorIds |-> FALSE]
    /\ html = [e \in EditorIds |-> 0]
    /\ rendersStarted = [e \in EditorIds |-> 0]
    /\ pendingRenders = [e \in EditorIds |-> {}]
    /\ statPending = [e \in EditorIds |-> FALSE]
    /\ events = 0
    /\ stateBefore = "None"
    /\ updated = 0
    /\ posted = <<>>
    /\ lastOp = Op("init", 0, FALSE, NoUri)
    /\ now = 0
    /\ rResource = NoUri
    /\ rDisposed = FALSE
    /\ rStarted = 0
    /\ rPending = {}
    /\ rDone = {}
    /\ rHtml = <<>>

\* EditorManager.resolveCustomTextEditor(document, webviewEditor) with
\* document.uri = res and webviewEditor.active = active.
resolveCustomTextEditor(res, active) ==
    LET e == created + 1 IN
    /\ created < MaxEditors
    /\ created' = e
    /\ resource' = [resource EXCEPT ![e] = res]
    /\ webviewActive' = [webviewActive EXCEPT ![e] = active]
    /\ disposables' = [disposables EXCEPT ![e] =
           Register(Register(Register(Register(Register(@,
               "onDidChangeViewState"), "onDidDispose"), "watcher"),
               "watcher.onDidChange"), "watcher.onDidDelete")]
    /\ statPending' = [statPending EXCEPT ![e] = TRUE]
    /\ StartRender(e, res, "Visible")
    /\ editorState' = [editorState EXCEPT ![e] = update("Visible", active)]
    /\ editors' = editors \cup {e}
    /\ Assign(ResolveActivates(e, active))
    /\ Ran(1, ConstructorPosts(active))
    /\ Deliver(Op("resolve", e, active, res))
    /\ UNCHANGED panelDisposed

\* The panel of editor e fires onDidChangeViewState with active = `active`.
onDidChangeViewState(e, active) ==
    /\ e \in 1..created
    /\ ~panelDisposed[e]
    /\ webviewActive' = [webviewActive EXCEPT ![e] = active]
    /\ editorState' = [editorState EXCEPT ![e] = update(@, active)]
    /\ Assign(ManagerOnDidChangeViewState(activeEditor, e, active))
    /\ Ran(1, ViewStatePosts(editorState[e], update(editorState[e], active),
                              active))
    /\ Deliver(Op("viewState", e, active, NoUri))
    /\ UNCHANGED <<created, editors, resource, disposables, panelDisposed,
                   html, rendersStarted, pendingRenders, statPending>>

\* The host tears the panel of editor e down.
onDidDispose(e) ==
    /\ e \in 1..created
    /\ ~panelDisposed[e]
    /\ DisposePanel(e)
    /\ Assign(<<>>)
    /\ Ran(0, <<>>)
    /\ Deliver(Op("dispose", e, FALSE, NoUri))
    /\ UNCHANGED <<created, resource, disposables, webviewActive, html,
                   rendersStarted, pendingRenders, statPending>>

\* The watcher of editor e reports a change of uri.
watcherOnDidChange(e, uri) ==
    /\ e \in 1..created
    /\ "watcher.onDidChange" \in disposables[e]
    /\ IF WatcherMatches(uri, resource[e])
       THEN StartRender(e, resource[e], editorState[e])
       ELSE UNCHANGED <<rendersStarted, pendingRenders, html>>
    /\ Assign(<<>>)
    /\ Ran(0, <<>>)
    /\ Deliver(Op("change", e, WatcherMatches(uri, resource[e]), uri))
    /\ UNCHANGED <<created, editors, resource, editorState, disposables,
                   webviewActive, panelDisposed, statPending>>

\* The watcher of editor e reports the deletion of uri.
watcherOnDidDelete(e, uri) ==
    /\ e \in 1..created
    /\ "watcher.onDidDelete" \in disposables[e]
    /\ IF WatcherMatches(uri, resource[e]) /\ ~panelDisposed[e]
       THEN DisposePanel(e)
       ELSE UNCHANGED <<panelDisposed, editorState, editors>>
    /\ Assign(<<>>)
    /\ Ran(0, <<>>)
    /\ Deliver(Op("delete", e, WatcherMatches(uri, resource[e]), uri))
    /\ UNCHANGED <<created, resource, disposables, webviewActive, html,
                   rendersStarted, pendingRenders, statPending>>

\* The constructor's stat probe settles; only fulfilment has a handler.
statSettled(e, fulfilled) ==
    /\ e \in 1..created
    /\ statPending[e]
    /\ statPending' = [statPending EXCEPT ![e] = FALSE]
    /\ editorState' = [editorState EXCEPT ![e] =
           IF StatThen(fulfilled) = 1 THEN update(@, webviewActive[e]) ELSE @]
    /\ Ran(StatThen(fulfilled), <<>>)
    /\ Assign(<<>>)
    /\ Deliver(Op("stat", e, fulfilled, NoUri))
    /\ UNCHANGED <<created, editors, resource, disposables, webviewActive,
                   panelDisposed, html, rendersStarted, pendingRenders>>

\* The stat awaited by render `id` of editor e settles: on fulfilment
\* render resumes after its await and assigns webview.html.
renderSettled(e, id, fulfilled) ==
    /\ e \in 1..created
    /\ id \in pendingRenders[e]
    /\ pendingRenders' = [pendingRenders EXCEPT ![e] = @ \ {id}]
    /\ html' = [html EXCEPT ![e] = IF fulfilled THEN id ELSE @]
    /\ Assign(<<>>)
    /\ Ran(0, <<>>)
    /\ Deliver(Op("rendered", e, fulfilled, NoUri))
    /\ UNCHANGED <<created, editors, resource, editorState, disposables,
                   webviewActive, panelDisposed, rendersStarted, statPending>>

Next ==
    \/ \E res \in Resources, active \in BOOLEAN :
           resolveCustomTextEditor(res, active)
    \/ \E e \in EditorIds, active \in BOOLEAN : onDidChangeViewState(e, active)
    \/ \E e \in EditorIds : onDidDispose(e)
    \/ \E e \in EditorIds, uri \in EventUris : watcherOnDidChange(e, uri)
    \/ \E e \in EditorIds, uri \in EventUris : watcherOnDidDelete(e, uri)
    \/ \E e \in EditorIds, fulfilled \in BOOLEAN : statSettled(e, fulfilled)
    \/ \E e \in EditorIds, id \in 1..MaxEvents, fulfilled \in BOOLEAN :
           renderSettled(e, id, fulfilled)

Spec == Init /\ [][Next]_vars

----------------------------------------------------------------------------
\* The render specification: the renders of one Editor with the clock, the
\* version, the stat result and the nonce of each.

\* render() reaches `webview.html = ...` for render id of resource res,
\* started at clock value `at`, with stat result `size` and the clock
\* reading `t` at the nonce.
Written(res, id, at, size, t) ==
    LET src == getResourcePath(res, size, NatToString[at]) IN
    /\ rDone' = rDone \cup {[id |-> id, at |-> at,
                              version |-> NatToString[at], size |-> size,
                              nonce |-> NatToString[t], src |-> src]}
    /\ rHtml' = <<getWebiewContents(src, NatToString[t])>>

\* Editor.render() called on resource res: nothing when Disposed; else the
\* version is read and the render either suspends on the stat of a git
\* resource or runs to the assignment, the clock having advanced or not.
rRender(res) ==
    LET id == rStarted + 1 IN
    IF ~render(IF rDisposed THEN "Disposed" ELSE "Visible")
    THEN UNCHANGED <<now, rStarted, rPending, rDone, rHtml>>
    ELSE /\ rStarted' = id
         /\ IF AwaitsStat(res)
            THEN /\ rPending' = rPending \cup {[id |-> id, at |-> now]}
                 /\ UNCHANGED <<now, rDone, rHtml>>
            ELSE /\ \E t \in {now, now + 1} \cap (0..MaxClock) :
                        /\ now' = t
                        /\ Written(res, id, now, StatError, t)
                 /\ UNCHANGED rPending

\* new Editor(extensionRoot, res, webviewEditor): the construction render.
rConstruct(res) ==
    /\ rResource = NoUri
    /\ rResource' = res
    /\ rRender(res)
    /\ UNCHANGED <<rDisposed, mainVars>>

\* The watcher reports a change of uri.
rOnDidChange(uri) ==
    /\ rResource # NoUri
    /\ rStarted < MaxRenders
    /\ IF WatcherMatches(uri, rResource)
       THEN rRender(rResource)
       ELSE UNCHANGED <<now, rStarted, rPending, rDone, rHtml>>
    /\ UNCHANGED <<rResource, rDisposed, mainVars>>

\* The stat awaited by a suspended render settles with `size`, or is
\* rejected; on fulfilment the render goes on to the nonce and the
\* assignment.
rStatSettled(p, size) ==
    /\ p \in rPending
    /\ rPending' = rPending \ {p}
    /\ IF size = StatError
       THEN UNCHANGED <<rDone, rHtml>>
       ELSE Written(rResource, p.id, p.at, size, now)
    /\ UNCHANGED <<now, rResource, rDisposed, rStarted, mainVars>>

\* The panel fires onDidDispose.
rOnDidDispose ==
    /\ rResource # NoUri
    /\ ~rDisposed
    /\ rDisposed' = TRUE
    /\ UNCHANGED <<now, rResource, rStarted, rPending, rDone, rHtml, mainVars>>

\* A millisecond passes.
Tick ==
    /\ now < MaxClock
    /\ now' = now + 1
    /\ UNCHANGED <<rResource, rDisposed, rStarted, rPending, rDone, rHtml,
                   mainVars>>

RenderNext ==
    \/ \E res \in RenderResources : rConstruct(res)
    \/ \E uri \in RenderResources \cup {FileB} : rOnDidChange(uri)
    \/ \E p \in rPending, size \in Sizes \cup {StatError} : rStatSettled(p, size)
    \/ rOnDidDispose
    \/ Tick

RenderSpec == Init /\ [][RenderNext]_vars

----------------------------------------------------------------------------
\* The state an Editor is meant to be in: Disposed once its panel has fired
\* onDidDispose, otherwise Active or Visible as the panel last reported.
ExpectedState(e) ==
    IF panelDisposed[e] THEN "Disposed"
    ELSE IF webviewActive[e] THEN "Active" ELSE "Visible"

\* C1: in every reachable state the manager's active reference is absent or
\* a member of the live editor set.
C1_ActiveIsLive == activeEditor = None \/ activeEditor \in editors

C3_NoWriteAfterDispose ==
    [][\A e \in EditorIds :
          editorState[e] = "Disposed" => html'[e] = html[e]]_vars

\* C4: after a view-state notification of editor E's panel the active
\* reference is E if the panel reports active, absent if it reports inactive
\* and the reference was E, and unchanged otherwise.
C4_ViewStateSetsActive ==
    [][lastOp'.kind = "viewState" =>
          activeEditor' =
              IF lastOp'.flag THEN lastOp'.editor
              ELSE IF activeEditor = lastOp'.editor THEN None
              ELSE activeEditor]_vars

\* C4 witness: a panel reported inactive while another editor was the
\* active one, and that other editor is still the active one.
C4_Witness ==
    /\ lastOp.kind = "viewState"
    /\ ~lastOp.flag
    /\ activeEditor # None
    /\ activeEditor # lastOp.editor
    /\ ~panelDisposed[activeEditor]

\* C5: every assignment of the active reference sends exactly one context
\* broadcast, true exactly when the assigned reference is present; the last
\* broadcast value equals "an active editor is present"; clearing the
\* reference of the active editor A follows a last broadcast of true with
\* exactly one broadcast of false.
C5_BroadcastPerAssignment ==
    /\ [](/\ Len(broadcasts) = Len(assigned)
          /\ \A i \in 1..Len(assigned) : broadcasts[i] = (assigned[i] # None)
          /\ contextFlag = (IF created = 0 THEN <<>>
                            ELSE <<activeEditor # None>>))
    /\ [][/\ activeEditor' # activeEditor => Len(broadcasts') = 1
          /\ (/\ lastOp'.kind = "viewState"
              /\ ~lastOp'.flag
              /\ activeEditor = lastOp'.editor)
                 => /\ contextFlag = <<TRUE>>
                    /\ broadcasts' = <<FALSE>>
                    /\ contextFlag' = <<FALSE>>
         ]_vars

\* C5 witness: editor A was the active one and its panel reported inactive:
\* the reference is absent and the handler broadcast false.
C5_Witness ==
    /\ lastOp.kind = "viewState"
    /\ ~lastOp.flag
    /\ assigned = <<None>>
    /\ broadcasts = <<FALSE>>
    /\ activeEditor = None
    /\ contextFlag = <<FALSE>>

\* C6: resolveCustomTextEditor(document, panel) creates one new Editor bound
\* to that pair, adds it to the live set and makes it the active editor,
\* whatever the panel's focus value and whichever editor was active before.
C6_ResolveActivates ==
    [][lastOp'.kind = "resolve" =>
          LET e == lastOp'.editor IN
          /\ created' = created + 1
          /\ e = created'
          /\ e \notin editors
          /\ editors' = editors \cup {e}
          /\ resource'[e] = lastOp'.uri
          /\ webviewActive'[e] = lastOp'.flag
          /\ \A o \in 1..created : /\ resource'[o] = resource[o]
                                   /\ editorState'[o] = editorState[o]
          /\ activeEditor' = e]_vars

\* C6 witness: a second editor was opened on an unfocused panel while the
\* first editor was open, and it is the active editor.
C6_Witness ==
    /\ lastOp.kind = "resolve"
    /\ lastOp.editor = 2
    /\ ~lastOp.flag
    /\ 1 \in editors
    /\ webviewActive[1]
    /\ activeEditor = 2

\* C7: the live set is exactly the set of editors that were opened and whose
\* panel has not been disposed.
C7_LiveSet == editors = {e \in 1..created : ~panelDisposed[e]}

\* C7 witness: of two opened editors the first was disposed and the second
\* is still in the live set.
C7_Witness ==
    /\ created = 2
    /\ lastOp.kind = "dispose"
    /\ lastOp.editor = 1
    /\ panelDisposed[1]
    /\ editors = {2}

\* C8: for an Editor that is not Disposed a change event for the bound
\* resource starts exactly one render (one more render counted, and either
\* suspended on its stat or written to the html), and a change event for
\* any other uri starts none and leaves html and editor state unchanged.
C8_ChangeRenders ==
    [][lastOp'.kind = "change" =>
          LET e == lastOp'.editor
              id == rendersStarted[e] + 1
          IN
          /\ \A o \in EditorIds \ {e} :
                 /\ rendersStarted'[o] = rendersStarted[o]
                 /\ pendingRenders'[o] = pendingRenders[o]
                 /\ html'[o] = html[o]
          /\ editorState' = editorState
          /\ IF lastOp'.uri = resource[e]
             THEN editorState[e] # "Disposed" =>
                      /\ rendersStarted'[e] = id
                      /\ \/ /\ pendingRenders'[e] = pendingRenders[e] \cup {id}
                            /\ html'[e] = html[e]
                         \/ /\ pendingRenders'[e] = pendingRenders[e]
                            /\ html'[e] = id
             ELSE /\ rendersStarted'[e] = rendersStarted[e]
                  /\ pendingRenders'[e] = pendingRenders[e]
                  /\ html'[e] = html[e]
         ]_vars

\* C8 witness: a live Editor received a change event for its resource and
\* has started its second render.
C8_Witness ==
    /\ lastOp.kind = "change"
    /\ lastOp.uri = resource[lastOp.editor]
    /\ editorState[lastOp.editor] # "Disposed"
    /\ rendersStarted[lastOp.editor] = 2

\* C9: a delete event for the bound resource disposes the panel: the Editor
\* is Disposed and no longer in the live set; a delete event for any other
\* uri disposes nothing; no other Editor is touched.
C9_DeleteDisposes ==
    [][lastOp'.kind = "delete" =>
          LET e == lastOp'.editor IN
          /\ \A o \in EditorIds \ {e} :
                 /\ panelDisposed'[o] = panelDisposed[o]
                 /\ editorState'[o] = editorState[o]
                 /\ (o \in editors') = (o \in editors)
          /\ IF lastOp'.uri = resource[e]
             THEN /\ panelDisposed'[e]
                  /\ editorState'[e] = "Disposed"
                  /\ e \notin editors'
             ELSE /\ panelDisposed'[e] = panelDisposed[e]
                  /\ editorState'[e] = editorState[e]
                  /\ (e \in editors') = (e \in editors)
         ]_vars

\* C9 witness: the delete event for its resource has taken the Editor out
\* of the live set and left it Disposed while another Editor stays live.
C9_Witness ==
    /\ lastOp.kind = "delete"
    /\ lastOp.uri = resource[lastOp.editor]
    /\ lastOp.flag
    /\ editorState[lastOp.editor] = "Disposed"
    /\ lastOp.editor \notin editors
    /\ editors # {}

\* C10: when an Editor has been torn down every disposable it registered
\* has been released.
C10_ReleasedOnTeardown ==
    \A e \in EditorIds : editorState[e] = "Disposed" => disposables[e] = {}

\* C11: the stat probe issued at construction is followed by one update()
\* pass when it settles, fulfilled or rejected.
C11_ProbeThenUpdate == [][lastOp'.kind = "stat" => updated' = 1]_vars

\* C12: the Editor posts exactly one setActive message at construction and
\* one on every focus-change notification, carrying the panel's focus value
\* of that moment, also when the editor state does not change; no other
\* callback posts a message.
C12_OneMessagePerFocusEvent ==
    [][posted' = IF lastOp'.kind \in {"resolve", "viewState"}
                 THEN <<webviewActive'[lastOp'.editor]>>
                 ELSE <<>>]_vars

\* C12 witness: a focus-change notification repeated the value the panel
\* had already reported, the editor state did not change, and one message
\* with that value was posted.
C12_Witness ==
    /\ lastOp.kind = "viewState"
    /\ lastOp.flag
    /\ stateBefore = "Active"
    /\ editorState[lastOp.editor] = "Active"
    /\ posted = <<TRUE>>

\* C16: whenever the active editor is present its panel reports active and
\* its Editor state is Active.
C16_ActiveHoldsFocus ==
    activeEditor # None =>
        /\ webviewActive[activeEditor]
        /\ editorState[activeEditor] = "Active"

\* C17: when focus moves from editor A to editor B the active editor ends
\* as B with a last broadcast of true under both delivery orders: B's active
\* notification makes B the active editor whether the reference was A or
\* already cleared, and A's inactive notification arriving after it leaves
\* the reference on B and broadcasts nothing.
C17_FocusMoveEitherOrder ==
    [][lastOp'.kind = "viewState" =>
          LET e == lastOp'.editor IN
          /\ lastOp'.flag =>
                 /\ activeEditor' = e
                 /\ contextFlag' = <<TRUE>>
          /\ (~lastOp'.flag /\ activeEditor \notin {None, e}) =>
                 /\ activeEditor' = activeEditor
                 /\ broadcasts' = <<>>
                 /\ contextFlag' = <<TRUE>>
         ]_vars

\* C17 witness: editor 1 was Active, editor 2's panel has reported active
\* and is the active editor, and the late inactive notification of editor 1
\* has been delivered: the active editor is still 2 and the flag is true.
C17_Witness ==
    /\ lastOp.kind = "viewState"
    /\ lastOp.editor = 1
    /\ ~lastOp.flag
    /\ stateBefore = "Active"
    /\ activeEditor = 2
    /\ webviewActive[2]
    /\ editorState[2] = "Active"
    /\ broadcasts = <<>>
    /\ contextFlag = <<TRUE>>

\* Whether a completed render's stat result makes getResourcePath return
\* the placeholder.
Placeholder(d) == rResource.scheme = "git" /\ d.size = 0

\* C13: getResourcePath returns the fixed placeholder data uri for every git
\* resource whose stat reports size zero, with or without a query; for a git
\* resource of another size and for every other scheme it returns a
\* converted url (the host's webview uri of the resource, with the
\* resource's query or a version query), never the placeholder.
C13_PlaceholderForEmptyGit ==
    \A d \in rDone :
        IF Placeholder(d)
        THEN d.src = emptyPngDataUri
        ELSE /\ d.src # emptyPngDataUri
             /\ d.src # UriToString(rResource)
             /\ d.src \in {UriToString(WithQuery(AsWebviewUri(rResource), q)) :
                              q \in {rResource.query, "version=" \o d.version}}

\* C13 witness: a render of a git resource that carries a query read size
\* zero and produced the placeholder.
C13_Witness ==
    /\ rResource.scheme = "git"
    /\ rResource.query # ""
    /\ \E d \in rDone : d.size = 0 /\ d.src = emptyPngDataUri
    /\ rHtml # <<>>

\* C14: for a resource not replaced by the placeholder getResourcePath
\* returns the base conversion unchanged when the resource has a query, and
\* the base conversion with its query set to version=<the timestamp read
\* when the render started> when it has none.
C14_VersionOnlyWithoutQuery ==
    \A d \in rDone :
        ~Placeholder(d) =>
            d.src = IF rResource.query # ""
                    THEN UriToString(AsWebviewUri(rResource))
                    ELSE UriToString(WithQuery(AsWebviewUri(rResource),
                                               "version=" \o NatToString[d.at]))

\* C14 witness: a render of a git resource with a query read a non-zero
\* size and produced the base conversion, query included, with no version.
C14_Witness ==
    /\ rResource.scheme = "git"
    /\ rResource.query = "ref=HEAD"
    /\ \E d \in rDone :
           /\ d.size > 0
           /\ d.src = "vscode-resource:/git/a.bpmn?ref=HEAD"

\* The version every started render read, by render id.
Versions ==
    {[id |-> p.id, version |-> NatToString[p.at]] : p \in rPending}
        \cup {[id |-> d.id, version |-> d.version] : d \in rDone}

\* C15: for a resource without a query any two renders of the Editor have
\* different version values, and no two renders use the same nonce, the
\* clock being a counter that never decreases and may stand still.
C15_FreshVersionAndNonce ==
    /\ rResource.query = "" =>
           \A v, w \in Versions : v.id # w.id => v.version # w.version
    /\ \A d, f \in rDone : d.id # f.id => d.nonce # f.nonce

\* C18: once every started render of the Editor has completed, the html is
\* the content produced by the render that was started last.
C18_LastStartedWins ==
    (rStarted >= 2 /\ rPending = {} /\ Cardinality(rDone) = rStarted) =>
        \E d \in rDone :
            /\ d.id = rStarted
            /\ rHtml = <<getWebiewContents(d.src, d.nonce)>>

====
